---- MODULE Spec2Model ----
(***************************************************************************)
(* Corn Frost App (corn_frost_app.js): the click -> classification ->      *)
(* NDVI series -> chart pipeline of showTimeSeries, and the widgets it     *)
(* mutates (chartPanel, leftMap, rightMap).                                *)
(*                                                                         *)
(* Time is counted in whole hours since 1970-01-01T00:00Z, i.e. the        *)
(* 'system:time_start' milliseconds divided by 3600000.                    *)
(* A band value is a record [value |-> <<num, den>>, mask |-> 0 or 1]; a   *)
(* pixel whose mask is 0 is what the chart receives as null ("absent").    *)
(***************************************************************************)
EXTENDS Integers, Sequences, FiniteSets, TLC

VARIABLES archive, requests, chartPanel, leftMapLayers, rightMapLayers

vars == <<archive, requests, chartPanel, leftMapLayers, rightMapLayers>>

\* ------------------------------------------------------------- bounds
MaxObs == 2
MaxClicks == 2
MaxChartClicks == 1

\* ------------------------------------------------------------- dates
\* ee.Date('YYYY-MM-DD'): the date <<y, m, d>> at 00:00 UTC, in days since 1970-01-01
DaysFromCivil(y, m, d) ==
    LET yy  == IF m <= 2 THEN y - 1 ELSE y
        era == yy \div 400
        yoe == yy - era * 400
        mp  == (m + 9) % 12
        doy == (153 * mp + 2) \div 5 + d - 1
        doe == yoe * 365 + yoe \div 4 - yoe \div 100 + doy
    IN  era * 146097 + doe - 719468

\* new Date(x).toISOString().split('T')[0]: the UTC calendar date of a day number
CivilFromDays(z) ==
    LET zz  == z + 719468
        era == zz \div 146097
        doe == zz - era * 146097
        yoe == (doe - doe \div 1460 + doe \div 36524 - doe \div 146096) \div 365
        doy == doe - (365 * yoe + yoe \div 4 - yoe \div 100)
        mp  == (5 * doy + 2) \div 153
        d   == doy - (153 * mp + 2) \div 5 + 1
        m   == IF mp < 10 THEN mp + 3 ELSE mp - 9
        y   == yoe + era * 400 + (IF m <= 2 THEN 1 ELSE 0)
    IN  <<y, m, d>>

HoursPerDay == 24

\* ee.Date(dateString) as a time stamp
eeDate(ymd) == DaysFromCivil(ymd[1], ymd[2], ymd[3]) * HoursPerDay

\* ee.Date.advance(n, 'hour') and ee.Date.advance(n, 'day')
advanceHour(t, n) == t + n
advanceDay(t, n) == t + n * HoursPerDay

\* dateStr of a time stamp: new Date(xValue).toISOString().split('T')[0]
dateStr(t) == CivilFromDays(t \div HoursPerDay)

\* ------------------------------------------------------------- raster
\* a band missing from the reduceRegion result (null): no pixel at the point
Null == -1

\* The classification raster sampled at each point of the model: the bands
\* 'Corn' and 'Frost' of frostImage as reduceRegion(first) returns them.
frostImageSamples ==
    << [Corn |-> 2, Frost |-> 1],
       [Corn |-> 2, Frost |-> 2],
       [Corn |-> 2, Frost |-> 3],
       [Corn |-> 2, Frost |-> 4],
       [Corn |-> 2, Frost |-> 5],
       [Corn |-> 2, Frost |-> Null],
       [Corn |-> 1, Frost |-> 2],
       [Corn |-> 1, Frost |-> 4],
       [Corn |-> 0, Frost |-> 3],
       [Corn |-> Null, Frost |-> Null] >>

\* the points a user can click, named by their row of frostImageSamples
Points == 1..Len(frostImageSamples)

\* frostImage.select([0,1]).rename(['Corn','Frost']).reduceRegion(first, point)
reduceRegion(coords) == frostImageSamples[coords]

\* ------------------------------------------------------------- archive
\* the QA60 values, scene cloud percentages and reflectances of the model's scenes
QASamples == {0, 2^10, 2^11, 2^10 + 2^11}

TimeSamples ==
    { eeDate(<<2021, 5, 26>>),          \* midnight after the May 25 frost
      eeDate(<<2021, 7, 14>>) + 13,     \* a mid-day overpass
      eeDate(<<2021, 11, 1>>) + 13 }    \* after the charted period

Scene(t, qa, pct, nir, red) ==
    [time |-> t, QA60 |-> qa, CLOUDY_PIXEL_PERCENTAGE |-> pct, B8 |-> nir, B4 |-> red]

\* scenes of COPERNICUS/S2_SR_HARMONIZED covering the clicked points
ObsSamples ==
    { Scene(t, qa, 10, 3000, 1000) : t \in TimeSamples, qa \in QASamples }
      \cup { Scene(eeDate(<<2021, 5, 26>>), 0, 60, 3000, 1000),
             Scene(eeDate(<<2021, 7, 14>>) + 13, 0, 10, 0, 0) }

\* the collection holding the scenes q: each gets its 'system:index'
Collection(q) ==
    [i \in 1..Len(q) |->
        [time |-> q[i].time, index |-> <<i>>, QA60 |-> q[i].QA60,
         CLOUDY_PIXEL_PERCENTAGE |-> q[i].CLOUDY_PIXEL_PERCENTAGE,
         B8 |-> q[i].B8, B4 |-> q[i].B4]]

RECURSIVE SeqsUpTo(_, _)
SeqsUpTo(S, n) ==
    IF n = 0 THEN { <<>> }
    ELSE LET shorter == SeqsUpTo(S, n - 1)
         IN  shorter \cup { Append(q, x) : q \in shorter, x \in S }

\* ------------------------------------------------------------- band arithmetic
Abs(x) == IF x < 0 THEN 0 - x ELSE x

RECURSIVE GCD(_, _)
GCD(a, b) == IF b = 0 THEN a ELSE GCD(b, a % b)

\* the rational n/d in lowest terms with a positive denominator (d # 0)
Frac(n, d) ==
    LET g == GCD(Abs(n), Abs(d))
        s == IF d < 0 THEN 0 - 1 ELSE 1
    IN  <<(s * n) \div g, (s * d) \div g>>

RECURSIVE bitwiseAnd(_, _)
bitwiseAnd(a, b) ==
    IF a = 0 \/ b = 0 THEN 0
    ELSE (a % 2) * (b % 2) + 2 * bitwiseAnd(a \div 2, b \div 2)

Band(n, v, m) == [name |-> n, value |-> v, mask |-> m]

\* ee.Image.constant(0).mask(0).rename(n): the value 0 under a mask of 0
MaskedBand(n) == Band(n, Frac(0, 1), 0)

\* image.select(name): the band of that name
RECURSIVE BandOf(_, _)
BandOf(bands, n) ==
    IF bands[1].name = n THEN bands[1] ELSE BandOf(Tail(bands), n)

\* imageCollection.select(names) on one image: the named bands, in the order named
selectBands(img, names) ==
    [img EXCEPT !.bands = [i \in 1..Len(names) |-> BandOf(img.bands, names[i])]]

\* collection.sort('system:time_start'): ascending, equal keys keep their order
RECURSIVE InsertByTime(_, _)
InsertByTime(img, sorted) ==
    IF sorted = <<>> THEN <<img>>
    ELSE IF img.time < Head(sorted).time THEN <<img>> \o sorted
         ELSE <<Head(sorted)>> \o InsertByTime(img, Tail(sorted))

RECURSIVE sortByTime(_)
sortByTime(col) ==
    IF col = <<>> THEN <<>>
    ELSE InsertByTime(col[Len(col)], sortByTime(SubSeq(col, 1, Len(col) - 1)))

\* ------------------------------------------------------------- NDVI collection
\* .filterDate('2020-09-01', '2021-10-31').filter(lt('CLOUDY_PIXEL_PERCENTAGE', 60))
InChartQuery(scene) ==
    /\ eeDate(<<2020, 9, 1>>) <= scene.time
    /\ scene.time < eeDate(<<2021, 10, 31>>)
    /\ scene.CLOUDY_PIXEL_PERCENTAGE < 60

\* maskS2clouds with the cirrus bit left out of the mask
maskS2cloudsCloudOnly(image) ==
    LET qa   == image.QA60
        mask == IF bitwiseAnd(qa, 2^10) = 0 THEN 1 ELSE 0
    IN  [time  |-> image.time,
         index |-> image.index,
         bands |-> << Band("B8", Frac(image.B8, 10000), mask),
                      Band("B4", Frac(image.B4, 10000), mask) >>]

\* maskS2clouds: mask the pixel when the cloud or the cirrus bit of QA60 is set,
\* scale the reflectances, keep 'system:time_start'
maskS2clouds(image) ==
    LET qa   == image.QA60
        mask == IF bitwiseAnd(qa, 2^10) = 0 /\ bitwiseAnd(qa, 2^11) = 0 THEN 1 ELSE 0
    IN  [time  |-> image.time,
         index |-> image.index,
         bands |-> << Band("B8", Frac(image.B8, 10000), mask),
                      Band("B4", Frac(image.B4, 10000), mask) >>]

\* img.normalizedDifference(['B8','B4']).rename('NDVI'): (a - b) / (a + b), masked
\* where an input is masked or the sum is zero
normalizedDifference(img) ==
    LET a   == BandOf(img.bands, "B8")
        b   == BandOf(img.bands, "B4")
        num == a.value[1] * b.value[2] - b.value[1] * a.value[2]
        den == a.value[1] * b.value[2] + b.value[1] * a.value[2]
        ok  == a.mask = 1 /\ b.mask = 1 /\ den # 0
    IN  [time  |-> img.time,
         index |-> img.index,
         bands |-> << IF ok THEN Band("NDVI", Frac(num, den), 1)
                      ELSE MaskedBand("NDVI") >>]

\* s2_ndvi of showTimeSeries
s2_ndvi(arch) ==
    LET s2_chart == SelectSeq(arch, InChartQuery)
    IN  [i \in 1..Len(s2_chart) |-> normalizedDifference(maskS2clouds(s2_chart[i]))]

\* ------------------------------------------------------------- evaluate callback
\* Classify with the June 30 class given the May 25 color
ClassifySwapped(cornVal, frostVal) ==
    IF cornVal # 2 THEN [statusText |-> "No corn mask", lineColor |-> "black"]
    ELSE IF frostVal = 1 THEN [statusText |-> "Harvested", lineColor |-> "#00FFFF"]
    ELSE IF frostVal = 2
         THEN [statusText |-> "Affected by Frost: May 25", lineColor |-> "#FF00FF"]
    ELSE IF frostVal = 3
         THEN [statusText |-> "Affected by Frost: June 30", lineColor |-> "#FF00FF"]
    ELSE IF frostVal = 4 THEN [statusText |-> "Not Affected", lineColor |-> "#008000"]
    ELSE [statusText |-> "Unknown Class", lineColor |-> "gray"]

\* Classify with a missing 'Corn' value sent to the unknown class
ClassifyMissingUnknown(cornVal, frostVal) ==
    IF cornVal = Null THEN [statusText |-> "Unknown Class", lineColor |-> "gray"]
    ELSE IF cornVal # 2 THEN [statusText |-> "No corn mask", lineColor |-> "black"]
    ELSE IF frostVal = 1 THEN [statusText |-> "Harvested", lineColor |-> "#00FFFF"]
    ELSE IF frostVal = 2
         THEN [statusText |-> "Affected by Frost: May 25", lineColor |-> "#FF00FF"]
    ELSE IF frostVal = 3
         THEN [statusText |-> "Affected by Frost: June 30", lineColor |-> "#0000FF"]
    ELSE IF frostVal = 4 THEN [statusText |-> "Not Affected", lineColor |-> "#008000"]
    ELSE [statusText |-> "Unknown Class", lineColor |-> "gray"]

\* statusText and lineColor from the sampled 'Corn' and 'Frost' values
Classify(cornVal, frostVal) ==
    IF cornVal # 2 THEN [statusText |-> "No corn mask", lineColor |-> "black"]
    ELSE IF frostVal = 1 THEN [statusText |-> "Harvested", lineColor |-> "#00FFFF"]
    ELSE IF frostVal = 2
         THEN [statusText |-> "Affected by Frost: May 25", lineColor |-> "#FF00FF"]
    ELSE IF frostVal = 3
         THEN [statusText |-> "Affected by Frost: June 30", lineColor |-> "#0000FF"]
    ELSE IF frostVal = 4 THEN [statusText |-> "Not Affected", lineColor |-> "#008000"]
    ELSE [statusText |-> "Unknown Class", lineColor |-> "gray"]

\* isFrostEvent without the corn test
isFrostEventAnyMask(cornVal, frostVal) == frostVal = 2 \/ frostVal = 3

isFrostEvent(cornVal, frostVal) == cornVal = 2 /\ (frostVal = 2 \/ frostVal = 3)

\* d: the date of the frost event of the class
FrostDate(frostVal) == IF frostVal = 2 THEN <<2021, 5, 25>> ELSE <<2021, 6, 30>>

\* frostLineCol with the NDVI band of the dummy images left unmasked
frostLineColUnmasked(frostVal) ==
    LET t1 == eeDate(FrostDate(frostVal))
        t2 == advanceHour(eeDate(FrostDate(frostVal)), 1)
    IN  << [time  |-> t1, index |-> <<0>>,
            bands |-> << Band("FrostMarker", Frac(0, 1), 1), Band("NDVI", Frac(0, 1), 1) >>],
           [time  |-> t2, index |-> <<1>>,
            bands |-> << Band("FrostMarker", Frac(1, 1), 1), Band("NDVI", Frac(0, 1), 1) >>] >>

\* ee.ImageCollection([frostImg1, frostImg2])
frostLineCol(frostVal) ==
    LET t1 == eeDate(FrostDate(frostVal))
        t2 == advanceHour(eeDate(FrostDate(frostVal)), 1)
    IN  << [time  |-> t1, index |-> <<0>>,
            bands |-> << Band("FrostMarker", Frac(0, 1), 1), MaskedBand("NDVI") >>],
           [time  |-> t2, index |-> <<1>>,
            bands |-> << Band("FrostMarker", Frac(1, 1), 1), MaskedBand("NDVI") >>] >>

\* img.addBands(ee.Image.constant(0).mask(0).rename('FrostMarker'))
addFrostMarkerBand(img) == [img EXCEPT !.bands = Append(@, MaskedBand("FrostMarker"))]

\* a.merge(b): the images of a, then those of b, the index prefixed by 1 or 2
merge(a, b) ==
    [i \in 1..Len(a) |-> [a[i] EXCEPT !.index = <<1>> \o @]]
      \o [i \in 1..Len(b) |-> [b[i] EXCEPT !.index = <<2>> \o @]]

\* combinedCol as the chart receives it, before select
combinedCol(arch, cornVal, frostVal) ==
    IF isFrostEvent(cornVal, frostVal)
    THEN LET ndvi   == s2_ndvi(arch)
             withMk == [i \in 1..Len(ndvi) |-> addFrostMarkerBand(ndvi[i])]
         IN  sortByTime(merge(withMk, frostLineCol(frostVal)))
    ELSE s2_ndvi(arch)

bandsToSelect(cornVal, frostVal) ==
    IF isFrostEvent(cornVal, frostVal) THEN <<"FrostMarker", "NDVI">> ELSE <<"NDVI">>

seriesOptions(cornVal, frostVal) ==
    IF isFrostEvent(cornVal, frostVal)
    THEN << [color |-> "black", targetAxisIndex |-> 1, labelInLegend |-> "Frost Event"],
            [color |-> Classify(cornVal, frostVal).lineColor, targetAxisIndex |-> 0,
             labelInLegend |-> "NDVI"] >>
    ELSE << [color |-> Classify(cornVal, frostVal).lineColor, targetAxisIndex |-> 0,
             labelInLegend |-> "NDVI"] >>

\* ui.Chart.image.series({imageCollection: combinedCol.select(bandsToSelect), ...})
\* built by the callback of request req for the sample result at coords
Chart(req, coords, arch, result) ==
    LET cornVal  == result.Corn
        frostVal == result.Frost
        names    == bandsToSelect(cornVal, frostVal)
        col      == combinedCol(arch, cornVal, frostVal)
    IN  [type            |-> "Chart",
         req             |-> req,
         point           |-> coords,
         title           |-> <<"Sentinel-2 NDVI", Classify(cornVal, frostVal).statusText, coords>>,
         bands           |-> names,
         imageCollection |-> [i \in 1..Len(col) |-> selectBands(col[i], names)],
         series          |-> seriesOptions(cornVal, frostVal)]

\* ------------------------------------------------------------- widgets
\* ui.Map.Layer(eeObject, visParams, name): the vis bands are told by the name
Layer(name, date, img, point) ==
    [name |-> name, date |-> date, eeObject |-> img, point |-> point]

\* the dates of interest of the right map
dates == << <<2021, 3, 16>>, <<2021, 4, 20>>, <<2021, 6, 4>>, <<2021, 7, 9>>, <<2021, 7, 29>> >>

\* s2.filterDate(d, d.advance(1, 'day')): the scenes in the day beginning at t
InDayFrom(t, col) ==
    LET inWindow(scene) == t <= scene.time /\ scene.time < advanceDay(t, 1)
    IN  SelectSeq(col, inWindow)

\* the two layers per date that dates.forEach adds to the right map
RECURSIVE DateLayers(_, _)
DateLayers(arch, ds) ==
    IF ds = <<>> THEN <<>>
    ELSE LET img == InDayFrom(eeDate(Head(ds)), arch)
         IN  << Layer("(RGB)", Head(ds), img, 0),
                Layer("(False Color)", Head(ds), img, 0) >>
               \o DateLayers(arch, Tail(ds))

LoadingLabel == [type |-> "Label", value |-> "Loading chart..."]
MapsLink(coords) == [type |-> "Label", value |-> "See in Google Maps", url |-> coords]
CloseButton == [type |-> "Button", label |-> "Close Chart"]

\* the chart shown in chartPanel, if it holds one
HasChart == chartPanel.widgets # <<>> /\ chartPanel.widgets[1].type = "Chart"
HasCloseButton ==
    \E i \in 1..Len(chartPanel.widgets) : chartPanel.widgets[i].type = "Button"

\* the layers chart clicks have added to the right map
ClickedDateLayers ==
    { i \in 1..Len(rightMapLayers) : rightMapLayers[i].name = "Clicked Date RGB" }

\* ------------------------------------------------------------- state machine
\* the app after the script has run, over one state of the archive
InitWidgets ==
    /\ requests = <<>>
    /\ chartPanel = [shown |-> FALSE, widgets |-> <<>>]
    /\ leftMapLayers = << Layer("Corn Frost Classification", <<>>, <<>>, 0) >>
    /\ rightMapLayers = DateLayers(archive, dates)

\* showTimeSeries(coords), up to the asynchronous evaluate
MapClick(coords) ==
    /\ chartPanel' = [shown |-> TRUE, widgets |-> <<LoadingLabel>>]
    /\ leftMapLayers' = Append(leftMapLayers, Layer("Clicked Point", <<>>, <<>>, coords))
    /\ rightMapLayers' = Append(rightMapLayers, Layer("Clicked Point", <<>>, <<>>, coords))
    /\ requests' = Append(requests, [coords |-> coords, status |-> "pending"])
    /\ UNCHANGED archive

\* EvaluateCallback that also makes the panel visible
EvaluateCallbackShows(r) ==
    /\ r \in 1..Len(requests)
    /\ requests[r].status = "pending"
    /\ LET coords == requests[r].coords
           chart  == Chart(r, coords, archive, reduceRegion(coords))
       IN  chartPanel' = [shown |-> TRUE, widgets |-> <<chart, MapsLink(coords), CloseButton>>]
    /\ requests' = [requests EXCEPT ![r].status = "done"]
    /\ UNCHANGED <<archive, leftMapLayers, rightMapLayers>>

\* the evaluate callback of request r, called with the reduction's result
EvaluateCallback(r) ==
    /\ r \in 1..Len(requests)
    /\ requests[r].status = "pending"
    /\ LET coords == requests[r].coords
           chart  == Chart(r, coords, archive, reduceRegion(coords))
       IN  chartPanel' = [chartPanel EXCEPT
                             !.widgets = <<chart, MapsLink(coords), CloseButton>>]
    /\ requests' = [requests EXCEPT ![r].status = "done"]
    /\ UNCHANGED <<archive, leftMapLayers, rightMapLayers>>

\* the evaluate callback of request r, called after the reduction failed: result is
\* undefined and reading result['Corn'] throws before anything is changed
EvaluateFailure(r) ==
    /\ r \in 1..Len(requests)
    /\ requests[r].status = "pending"
    /\ requests' = [requests EXCEPT ![r].status = "failed"]
    /\ UNCHANGED <<archive, chartPanel, leftMapLayers, rightMapLayers>>

\* the Close Chart button's callback
CloseChart ==
    /\ chartPanel.shown
    /\ HasCloseButton
    /\ chartPanel' = [chartPanel EXCEPT !.shown = FALSE]
    /\ UNCHANGED <<archive, requests, leftMapLayers, rightMapLayers>>

\* the first scene of the archive in the day beginning at xValue, if any (.first())
FirstInDayFrom(xValue, arch) ==
    LET col == InDayFrom(xValue, arch)
    IN  IF col = <<>> THEN <<>> ELSE <<Head(col)>>

\* the chart's onClick callback, called with xValue (0: no value)
ChartClick(xValue) ==
    /\ chartPanel.shown
    /\ HasChart
    /\ Cardinality(ClickedDateLayers) < MaxChartClicks
    /\ IF xValue = 0
       THEN UNCHANGED rightMapLayers
       ELSE LET img == FirstInDayFrom(xValue, archive)
                point == chartPanel.widgets[1].point
            IN  rightMapLayers' = rightMapLayers \o
                  << Layer("Clicked Date RGB", dateStr(xValue), img, point),
                     Layer("Clicked Date False Color", dateStr(xValue), img, point) >>
    /\ UNCHANGED <<archive, requests, chartPanel, leftMapLayers>>

\* the x values a click on the displayed chart can report
ChartXValues ==
    {0} \cup { chartPanel.widgets[1].imageCollection[i].time :
                 i \in 1..Len(chartPanel.widgets[1].imageCollection) }

\* a session of several clicks over a few states of the archive
SessionArchives ==
    { Collection(q) : q \in
        { <<>>,
          << Scene(eeDate(<<2021, 7, 14>>) + 13, 0, 10, 3000, 1000),
             Scene(eeDate(<<2021, 5, 26>>), 2^10, 10, 3000, 1000) >> } }

SessionPoints == {1, 2}

Init ==
    /\ archive \in SessionArchives
    /\ InitWidgets

Next ==
    \/ \E coords \in SessionPoints : Len(requests) < MaxClicks /\ MapClick(coords)
    \/ \E r \in 1..Len(requests) : EvaluateCallback(r)
    \/ \E r \in 1..Len(requests) : EvaluateFailure(r)
    \/ CloseChart
    \/ HasChart /\ \E xValue \in ChartXValues : ChartClick(xValue)

Spec == Init /\ [][Next]_vars

\* one click at any point over any archive of up to MaxObs scenes
InitAssemble ==
    /\ archive \in { Collection(q) : q \in SeqsUpTo(ObsSamples, MaxObs) }
    /\ InitWidgets

NextAssemble ==
    \/ \E coords \in Points : Len(requests) < 1 /\ MapClick(coords)
    \/ \E r \in 1..Len(requests) : EvaluateCallback(r)
    \/ \E r \in 1..Len(requests) : EvaluateFailure(r)
    \/ CloseChart
    \/ HasChart /\ \E xValue \in ChartXValues : ChartClick(xValue)

SpecAssemble == InitAssemble /\ [][NextAssemble]_vars

\* ------------------------------------------------------------- properties
\* what the displayed chart was built from
ShownChart == chartPanel.widgets[1]
ShownSeries == ShownChart.imageCollection
ShownSample == reduceRegion(ShownChart.point)
ShownStatus == ShownChart.title[2]
ShownNdviColor == ShownChart.series[Len(ShownChart.series)].color

\* an entry of a series that frostLineCol contributed / that a scene contributed
IsSynthetic(img) == Len(img.index) = 2 /\ img.index[1] = 2
IsReal(img) == ~IsSynthetic(img)

BandNames(img) == [i \in 1..Len(img.bands) |-> img.bands[i].name]
IsAbsent(img, n) == BandOf(img.bands, n).mask = 0
BitSet(qa, k) == (qa \div 2^k) % 2 = 1

FrostStatuses == {"Affected by Frost: May 25", "Affected by Frost: June 30"}

\* C1: for every category and every archive order, the series handed to the chart
\* is non-decreasing in timestamp.
C1_SeriesSorted ==
    HasChart =>
        \A i, j \in 1..Len(ShownSeries) :
            i < j => ShownSeries[i].time <= ShownSeries[j].time

\* C2: the classification shown for a sampled pair (cropMask, frostClass) is the
\* decision table's: cropMask # 2 -> not-crop/black; cropMask = 2 with frostClass
\* 1, 2, 3, 4 -> harvested/cyan, frost A/magenta, frost B/blue, unaffected/green;
\* cropMask = 2 with any other or a missing frostClass -> unknown/gray.
C2_DecisionTable ==
    HasChart =>
        LET c   == ShownSample.Corn
            f   == ShownSample.Frost
            got == <<ShownStatus, ShownNdviColor>>
        IN  /\ c # 2 => got = <<"No corn mask", "black">>
            /\ (c = 2 /\ f = 1) => got = <<"Harvested", "#00FFFF">>
            /\ (c = 2 /\ f = 2) => got = <<"Affected by Frost: May 25", "#FF00FF">>
            /\ (c = 2 /\ f = 3) => got = <<"Affected by Frost: June 30", "#0000FF">>
            /\ (c = 2 /\ f = 4) => got = <<"Not Affected", "#008000">>
            /\ (c = 2 /\ f \notin {1, 2, 3, 4}) => got = <<"Unknown Class", "gray">>

C2_Witness ==
    /\ HasChart
    /\ ShownSample = [Corn |-> 2, Frost |-> 3]
    /\ ShownStatus = "Affected by Frost: June 30"
    /\ ShownNdviColor = "#0000FF"

\* C3: for a frost-event category the series holds exactly two synthetic
\* observations, at the event date (A: May 25, B: June 30) at 00:00 and one hour
\* later, with marker 0 on the earlier and 1 on the later, the index absent on both.
C3_MarkerPair ==
    (HasChart /\ ShownStatus \in FrostStatuses) =>
        LET syn  == { i \in 1..Len(ShownSeries) : IsSynthetic(ShownSeries[i]) }
            day  == IF ShownStatus = "Affected by Frost: May 25"
                    THEN DaysFromCivil(2021, 5, 25) ELSE DaysFromCivil(2021, 6, 30)
            mark(i) == BandOf(ShownSeries[i].bands, "FrostMarker")
        IN  /\ Cardinality(syn) = 2
            /\ \E i, j \in syn :
                 /\ i < j
                 /\ ShownSeries[i].time = day * 24
                 /\ ShownSeries[j].time = day * 24 + 1
                 /\ mark(i).mask = 1 /\ mark(i).value = <<0, 1>>
                 /\ mark(j).mask = 1 /\ mark(j).value = <<1, 1>>
                 /\ IsAbsent(ShownSeries[i], "NDVI")
                 /\ IsAbsent(ShownSeries[j], "NDVI")

C3_Witness ==
    /\ HasChart
    /\ ShownStatus = "Affected by Frost: May 25"
    /\ \E i \in 1..Len(ShownSeries) :
         IsSynthetic(ShownSeries[i]) /\ ShownSeries[i].time = DaysFromCivil(2021, 5, 25) * 24 + 1
    /\ \E i \in 1..Len(ShownSeries) : IsReal(ShownSeries[i])

\* C4: the channel set and the synthesis depend only on the category. Frost event:
\* channels {marker, index}, both synthetic observations in the series, every real
\* observation with an absent marker. Any other category: channel {index} only and
\* no synthetic observation. Every observation exposes exactly the selected channels.
C4_ChannelsByCategory ==
    HasChart =>
        LET syn == { i \in 1..Len(ShownSeries) : IsSynthetic(ShownSeries[i]) }
        IN  /\ ShownStatus \in FrostStatuses =>
                 /\ ShownChart.bands = <<"FrostMarker", "NDVI">>
                 /\ Cardinality(syn) = 2
                 /\ \A i \in 1..Len(ShownSeries) :
                      IsReal(ShownSeries[i]) => IsAbsent(ShownSeries[i], "FrostMarker")
            /\ ShownStatus \notin FrostStatuses =>
                 /\ ShownChart.bands = <<"NDVI">>
                 /\ syn = {}
            /\ \A i \in 1..Len(ShownSeries) : BandNames(ShownSeries[i]) = ShownChart.bands

C4_Witness ==
    /\ HasChart
    /\ ShownSample = [Corn |-> 1, Frost |-> 2]
    /\ ShownChart.bands = <<"NDVI">>
    /\ Len(ShownSeries) = 2

\* the entries of the displayed series that scene i of the archive contributed
EntriesOf(i) ==
    { k \in 1..Len(ShownSeries) :
        IsReal(ShownSeries[k]) /\ ShownSeries[k].index[Len(ShownSeries[k].index)] = i }

\* the archive query of the chart returns scene a: charted period, scene cloud
\* percentage below 60
Queried(a) ==
    /\ DaysFromCivil(2020, 9, 1) * 24 <= a.time
    /\ a.time < DaysFromCivil(2021, 10, 31) * 24
    /\ a.CLOUDY_PIXEL_PERCENTAGE < 60

C6_LastClickWins == HasChart => ShownChart.req = Len(requests)

\* C7: when the query of a click fails the request ends in a visible error state:
\* once nothing is pending and the latest click's query has failed, the panel is
\* not left showing 'Loading chart...'.
C7_FailureIsShown ==
    (/\ requests # <<>>
     /\ requests[Len(requests)].status = "failed"
     /\ \A r \in 1..Len(requests) : requests[r].status # "pending")
        => chartPanel.widgets # <<LoadingLabel>>

\* C8: sampling over nodata (both band values missing) yields unknown/gray.
C8_NodataUnknown ==
    (HasChart /\ ShownSample = [Corn |-> Null, Frost |-> Null]) =>
        (ShownStatus = "Unknown Class" /\ ShownNdviColor = "gray")

\* C8 as amended: sampling over nodata (both band values missing) is not an error:
\* the chart is built, with the category not-crop ("No corn mask"), the color
\* black and the index channel only.
C8_NodataNotCrop ==
    (HasChart /\ ShownSample = [Corn |-> Null, Frost |-> Null]) =>
        /\ ShownStatus = "No corn mask"
        /\ ShownNdviColor = "black"
        /\ ShownChart.bands = <<"NDVI">>
        /\ requests[ShownChart.req].status = "done"

C8_Witness ==
    /\ HasChart
    /\ ShownSample = [Corn |-> Null, Frost |-> Null]
    /\ ShownStatus = "No corn mask"
    /\ ShownSeries # <<>>

\* C9: a timeline click with a timestamp T surfaces on the satellite map an
\* observation on exactly T's date: every layer a chart click added shows a scene
\* of the date the layer is named after.
C9_ClickedDateScene ==
    \A i \in 1..Len(rightMapLayers) :
        LET layer == rightMapLayers[i]
        IN  (layer.name \in {"Clicked Date RGB", "Clicked Date False Color"}
               /\ layer.eeObject # <<>>)
            => CivilFromDays(layer.eeObject[1].time \div 24) = layer.date

\* C10: the chart panel's visibility is changed only by a map click (made visible)
\* and by the Close Chart button (made hidden); the completion of a query never
\* changes it, so a result arriving in a hidden panel fills it and leaves it hidden.
C10_VisibilityFrame ==
    /\ [][ chartPanel'.shown # chartPanel.shown =>
             \/ chartPanel'.shown /\ \E coords \in Points : MapClick(coords)
             \/ ~chartPanel'.shown /\ CloseChart ]_vars
    /\ [][ (\E r \in 1..Len(requests) : EvaluateCallback(r) \/ EvaluateFailure(r)) =>
             chartPanel'.shown = chartPanel.shown ]_vars
    /\ [][ (~chartPanel.shown /\ \E r \in 1..Len(requests) : EvaluateCallback(r)) =>
             (~chartPanel'.shown /\ chartPanel'.widgets[1].type = "Chart") ]_vars

C10_Witness ==
    /\ ~chartPanel.shown
    /\ HasChart
    /\ Len(requests) = 2
    /\ ShownChart.req = 2
    /\ requests[1].status = "done"

====
